---- MODULE Spec2Model ----
(***************************************************************************)
(* ChatCount: the browser client that logs in to RingCentral with OAuth2   *)
(* authorization-code + PKCE and scans the user's chats for posts by given *)
(* users inside a date window.                                             *)
(*                                                                         *)
(* The repository holds three near-identical variants of the client:       *)
(*   "ReactSingle"  src/unnamed/part_000 lines 1-374   (React, one user)   *)
(*   "Html"         src/unnamed/part_000 lines 470-756 (plain DOM script)  *)
(*   "ReactMulti"   src/unnamed/part_001 lines 276-640 (React, many users) *)
(* The variable `variant` says which one runs; every handler below branches*)
(* on it exactly where the three sources differ.                           *)
(*                                                                         *)
(* JavaScript is run-to-completion: the code between two awaits is one     *)
(* atomic step.  Each action below is one such step (an event handler up   *)
(* to its first await, or the continuation after a response up to the next *)
(* await).  Handlers are written as functions from the state record to the *)
(* state record, so that a step can call the functions it calls in the     *)
(* source (logMessage, handleLogout, rcFetch, ...).                        *)
(***************************************************************************)
EXTENDS Integers, Sequences, FiniteSets, TLC

VARIABLES
    variant,        \* which of the three sources is running
    CLIENT_ID,      \* part_001:314, the compiled-in client id of ReactMulti
    tz,             \* local time-zone offset of the browser, in ticks (local = UTC + tz)
    chatPages,      \* remote: the pages of GET /chats, each a sequence of chat ids
    postPages,      \* remote: per chat, the pages of GET /chats/{id}/posts
    userId,         \* form field: the text typed, as its comma-separated segments
    startDate,      \* form field: a day number, or NoDate when empty
    endDate,        \* form field: a day number, or NoDate when empty
    location,       \* "app": the page is loaded; "authServer": navigated away
    urlCode,        \* the code query parameter of the visible URL, or Null
    sessionStorage, \* the per-tab key-value store
    accessToken,    \* in-memory token (React state / script variable)
    authPc,         \* "idle", or "token": exchangeCodeForToken awaits the token endpoint
    pendingLogins,  \* the handleLogin calls that await generateCodeChallenge
    authUrl,        \* the authorization URL the browser was last sent to
    exchanged,      \* history: how exchangeCodeForToken went since the page loaded
    tokenRequests,  \* number of token requests issued since the page loaded
    logs,           \* the log as the next render shows it
    logQueue,       \* logQueue.current
    logsPending,    \* setLogs updates queued by React, not yet applied
    dirty,          \* React has an update scheduled for App and has not rendered yet
    results,        \* the result list as shown
    loading,        \* loading state / findChatsBtn.disabled
    error,          \* error state of ReactMulti (setError)
    appVisible,     \* Html: appSection is shown (authSection hidden)
    pc,             \* findChats: "idle", "chats" (awaiting a chat page), "posts"
    allChats,       \* fetchAllUserChats: allChats
    pageToken,      \* pageToken of the paginator that is running
    page,           \* fetchAllUserChats: page
    foundChatsList, \* findChats: foundChatsList
    chatIdx,        \* findChats: position in allChats of the chat being scanned
    userIdx,        \* findChats: position in userIds of the user being checked
    userIds,        \* the user ids the scan checks
    postStartDate,  \* findChats: postStartDate (an instant)
    postEndDate,    \* findChats: postEndDate (an instant)
    request,        \* the request awaiting its response, or Null
    sent,           \* history: the requests rcFetch issued during the current scan
    checks,         \* history: the checkChatForUserPost calls that returned
    emitted,        \* history: the entries passed to logMessage during the current scan
    outcome,        \* history: how the last findChats ended
    clicks,         \* the user's clicks since the page was loaded
    loads,          \* the times the authorization server redirected back
    ticks           \* the times the log interval flushed since the page was loaded

vars ==
    << variant, CLIENT_ID, tz, chatPages, postPages, userId, startDate, endDate,
       location, urlCode, sessionStorage, accessToken, authPc, pendingLogins,
       authUrl, exchanged, tokenRequests,
       logs, logQueue, logsPending, dirty, results, loading, error, appVisible,
       pc, allChats, pageToken, page, foundChatsList, chatIdx, userIdx, userIds,
       postStartDate, postEndDate, request, sent, checks, emitted, outcome, clicks,
       loads, ticks >>

\* The state as one record: handlers are functions on it.
Cur ==
    [ variant |-> variant, CLIENT_ID |-> CLIENT_ID, tz |-> tz,
      chatPages |-> chatPages, postPages |-> postPages,
      userId |-> userId, startDate |-> startDate, endDate |-> endDate,
      location |-> location, urlCode |-> urlCode,
      sessionStorage |-> sessionStorage, accessToken |-> accessToken,
      authPc |-> authPc, pendingLogins |-> pendingLogins, authUrl |-> authUrl,
      exchanged |-> exchanged, tokenRequests |-> tokenRequests,
      logs |-> logs, logQueue |-> logQueue, logsPending |-> logsPending,
      dirty |-> dirty, results |-> results, loading |-> loading, error |-> error,
      appVisible |-> appVisible,
      pc |-> pc, allChats |-> allChats, pageToken |-> pageToken, page |-> page,
      foundChatsList |-> foundChatsList, chatIdx |-> chatIdx, userIdx |-> userIdx,
      userIds |-> userIds, postStartDate |-> postStartDate,
      postEndDate |-> postEndDate, request |-> request, sent |-> sent,
      checks |-> checks, emitted |-> emitted, outcome |-> outcome,
      clicks |-> clicks, loads |-> loads, ticks |-> ticks ]

\* The step that takes the state to record s.
Becomes(s) ==
    /\ variant' = s.variant /\ CLIENT_ID' = s.CLIENT_ID /\ tz' = s.tz
    /\ chatPages' = s.chatPages /\ postPages' = s.postPages
    /\ userId' = s.userId /\ startDate' = s.startDate /\ endDate' = s.endDate
    /\ location' = s.location /\ urlCode' = s.urlCode
    /\ sessionStorage' = s.sessionStorage /\ accessToken' = s.accessToken
    /\ authPc' = s.authPc /\ tokenRequests' = s.tokenRequests
    /\ pendingLogins' = s.pendingLogins /\ authUrl' = s.authUrl
    /\ exchanged' = s.exchanged
    /\ logs' = s.logs /\ logQueue' = s.logQueue /\ logsPending' = s.logsPending
    /\ dirty' = s.dirty /\ results' = s.results /\ loading' = s.loading
    /\ error' = s.error /\ appVisible' = s.appVisible
    /\ pc' = s.pc /\ allChats' = s.allChats /\ pageToken' = s.pageToken
    /\ page' = s.page /\ foundChatsList' = s.foundChatsList
    /\ chatIdx' = s.chatIdx /\ userIdx' = s.userIdx /\ userIds' = s.userIds
    /\ postStartDate' = s.postStartDate /\ postEndDate' = s.postEndDate
    /\ request' = s.request /\ sent' = s.sent /\ checks' = s.checks
    /\ emitted' = s.emitted
    /\ outcome' = s.outcome /\ clicks' = s.clicks /\ loads' = s.loads
    /\ ticks' = s.ticks

----------------------------------------------------------------------------
\* Values

Null == "null"                  \* JavaScript null / undefined / absent
Variants == {"ReactSingle", "Html", "ReactMulti"}
IsReact(s) == s.variant \in {"ReactSingle", "ReactMulti"}

ChatIds == {"c1", "c2", "c3"}
Creators == {"u1", "u2"}        \* creatorId values the remote service holds

TOKEN_KEY == "rc_access_token"
VERIFIER_KEY == "rc_code_verifier"
CLIENT_KEY == "rc_client_id"
StorageKeys == {TOKEN_KEY, VERIFIER_KEY, CLIENT_KEY}
EmptyStorage == [k \in StorageKeys |-> Null]

\* JavaScript truthiness of a string-or-null value.
Truthy(v) == v # Null /\ v # ""

RECURSIVE Concat(_)
\* [].concat(...) over a sequence of sequences
Concat(ss) == IF ss = <<>> THEN <<>> ELSE Head(ss) \o Concat(Tail(ss))

SeqsUpTo(S, n) == UNION {[1..k -> S] : k \in 0..n}
NonEmptySeqsUpTo(S, n) == UNION {[1..k -> S] : k \in 1..n}

----------------------------------------------------------------------------
\* Time.  An instant is a number of ticks since the epoch, in UTC; a calendar
\* day d is the instants d*DayTicks .. d*DayTicks + DayTicks - 1 of its zone.

DayTicks == 2

\* new Date("YYYY-MM-DD"): a date-only ISO string is parsed as UTC midnight.
ParseDate(d) == d * DayTicks

\* date.setHours(23, 59, 59, 999): the last instant of the LOCAL day that
\* holds the instant t, in a zone whose local time is UTC + zone.
SetHoursEndOfDay(t, zone) ==
    LET local == t + zone
        localDay == local \div DayTicks   \* \div rounds down, as calendar days do
    IN  (localDay * DayTicks + (DayTicks - 1)) - zone

----------------------------------------------------------------------------
\* Text.  The text of the user-id field is kept as the sequence of its
\* comma-separated segments, so <<"u1">> is the text "u1" and <<"u1", " u2">>
\* the text "u1, u2".  A creatorId c of the remote service is the text <<c>>.

Segments == {"", " ", "u1", "u2", " u2"}

\* String.prototype.trim on one segment
Trim(seg) == CASE seg = " " -> "" [] seg = " u2" -> "u2" [] OTHER -> seg
TrimStart(seg) == Trim(seg)
TrimEnd(seg) == IF seg = " " THEN "" ELSE seg

\* userIdInput.value.trim() on the whole text
TrimText(t) ==
    IF Len(t) = 1 THEN <<Trim(t[1])>>
    ELSE [i \in 1..Len(t) |->
            IF i = 1 THEN TrimStart(t[i])
            ELSE IF i = Len(t) THEN TrimEnd(t[i]) ELSE t[i]]

\* !text
TextEmpty(t) == t = <<"">>

\* userId.split(',').map(id => id.trim()).filter(id => id)
SplitTrimFilter(t) ==
    LET trimmed == [i \in 1..Len(t) |-> <<Trim(t[i])>>]
    IN  SelectSeq(trimmed, LAMBDA x : ~TextEmpty(x))

----------------------------------------------------------------------------
\* The log

LogEntry(message, chat, n, type) ==
    [message |-> message, chat |-> chat, n |-> n, type |-> type]

\* setLogs(prev => [...prev, ...logQueue.current, ...extra]).  React calls the
\* updater at once when App has no update scheduled (the eager path) and at
\* the next render otherwise; at the render logQueue.current is whatever it
\* is by then.
SetLogsFromQueue(s, extra) ==
    IF s.dirty
    THEN [s EXCEPT !.logsPending = Append(@, [op |-> "queue", v |-> extra])]
    ELSE [s EXCEPT !.logs = @ \o s.logQueue \o extra, !.dirty = TRUE]

\* setLogs(value)
SetLogsValue(s, value) ==
    IF s.logsPending # <<>>
    THEN [s EXCEPT !.logsPending = Append(@, [op |-> "value", v |-> value]),
                   !.dirty = TRUE]
    ELSE [s EXCEPT !.logs = value, !.dirty = TRUE]

\* setLogs(prev => [...prev, ...logQueue.current]); logQueue.current = [];
ForceFlush(s) == [SetLogsFromQueue(s, <<>>) EXCEPT !.logQueue = <<>>]

\* logMessage(message, type)
LogMessage(s, message, chat, n, type) ==
    LET e == LogEntry(message, chat, n, type)
        pushed == [s EXCEPT !.logQueue = Append(@, e), !.emitted = Append(@, e)]
    IN  CASE s.variant = "Html" ->
                \* part_000:518-524: appended to the log element at once
                [s EXCEPT !.logs = Append(@, e), !.emitted = Append(@, e)]
          [] s.variant = "ReactSingle" ->
                \* part_000:80-82
                pushed
          [] OTHER ->
                \* part_001:357-365
                IF type \in {"error", "success"}
                THEN [SetLogsFromQueue(pushed, <<e>>) EXCEPT !.logQueue = <<>>]
                ELSE pushed

\* The render React scheduled: the queued setLogs updates are applied in order.
RECURSIVE ApplyPending(_, _, _)
ApplyPending(cur, ops, queue) ==
    IF ops = <<>> THEN cur
    ELSE LET o == Head(ops)
             nxt == IF o.op = "value" THEN o.v ELSE cur \o queue \o o.v
         IN  ApplyPending(nxt, Tail(ops), queue)

RenderApp(s) ==
    [s EXCEPT !.logs = ApplyPending(s.logs, s.logsPending, s.logQueue),
              !.logsPending = <<>>,
              !.dirty = FALSE]

\* The 500 ms interval of the batching effect (part_000:65-73, part_001:342-350)
TimerTickBody(s) ==
    IF s.logQueue # <<>> THEN ForceFlush(s) ELSE s

\* Any other React state setter (setResults, setLoading, setAccessToken,
\* setError): the value is the state from now on and a render is scheduled.
Scheduled(s) == IF IsReact(s) THEN [s EXCEPT !.dirty = TRUE] ELSE s

----------------------------------------------------------------------------
\* Session

\* A clear that removes the token and leaves the rest of the store.
SessionRemoveToken(s) == [s EXCEPT !.sessionStorage[TOKEN_KEY] = Null]

\* sessionStorage.clear()
SessionClear(s) == [s EXCEPT !.sessionStorage = EmptyStorage]

\* handleLogout
HandleLogoutBody(s) ==
    LET cleared == SessionClear([s EXCEPT !.accessToken = Null])
    IN  CASE s.variant = "ReactSingle" ->
                \* part_000:107-113
                ForceFlush(LogMessage(Scheduled(cleared),
                                      "Logged out successfully.", "", 0, "info"))
          [] s.variant = "Html" ->
                \* part_000:549-555
                LogMessage([cleared EXCEPT !.appVisible = FALSE],
                           "Logged out successfully.", "", 0, "info")
          [] OTHER ->
                \* part_001:387-393
                LET r == [Scheduled(cleared) EXCEPT !.results = <<>>, !.error = ""]
                IN  SetLogsValue(r, <<LogEntry("Logged out successfully.", "", 0, "none")>>)

\* The token rcFetch reads: sessionStorage in the React variants
\* (part_000:165, part_001:440), the script variable in the HTML one (part_000:609).
RcToken(s) ==
    IF s.variant = "Html" THEN s.accessToken ELSE s.sessionStorage[TOKEN_KEY]

----------------------------------------------------------------------------
\* The remote service

\* A page token is opaque to the client; the service names page i (i > 1) by
\* PageTokens[i].
PageTokens == <<"", "p2", "p3", "p4", "p5", "p6", "p7">>
TokenOfPage(i) == PageTokens[i]
PageOfToken(tok) == IF tok = Null THEN 1 ELSE CHOOSE i \in 2..Len(PageTokens) : PageTokens[i] = tok

\* The body of the 2xx response to a request: { records, navigation: { nextPageToken } }
ServerData(s, req) ==
    LET pages == IF req.kind = "chats" THEN s.chatPages ELSE s.postPages[req.chat]
        i == PageOfToken(req.pageToken)
    IN  [records |-> pages[i],
         nextPageToken |-> IF i < Len(pages) THEN TokenOfPage(i + 1) ELSE Null]

\* What the service may answer: a status, whether the body of a failure holds
\* the characters "404", and whether the body of a success parses as JSON.
Response(status, has404, json) == [status |-> status, has404 |-> has404, json |-> json]
NoResponse == Response(0, FALSE, FALSE)
Responses ==
    { Response(200, FALSE, TRUE), Response(200, FALSE, FALSE),
      Response(401, FALSE, TRUE), Response(404, FALSE, TRUE),
      Response(500, FALSE, TRUE), Response(500, TRUE, TRUE) }
ResponseOk(resp) == resp.status = 200

----------------------------------------------------------------------------
\* rcFetch (part_000:164-181, part_000:608-623, part_001:439-459)

Err(kind, status, has404) == [kind |-> kind, status |-> status, has404 |-> has404]
NotAuthenticated == Err("Not authenticated.", 0, FALSE)
Auth401 == Err("Authentication error (401).", 401, FALSE)
ApiError(resp) == Err("API Error", resp.status, resp.has404)
JsonError == Err("SyntaxError", 0, FALSE)

\* error.message.includes("404"): the message of an API error is
\* `API Error ${status}: ${statusText}. Response: ${errorText}`.
MessageIncludes404(e) == e.kind = "API Error" /\ (e.status = 404 \/ e.has404)

\* An rcFetch that sends whether or not there is a token.
RcFetchRefusesNever(s) == FALSE

\* The part of rcFetch before its await: TRUE when it throws for lack of a token.
RcFetchRefuses(s) == ~Truthy(RcToken(s))

\* What rcFetch does before throwing "Not authenticated."
RcFetchRefusal(s) ==
    IF s.variant = "ReactMulti" THEN HandleLogoutBody(s) ELSE s

\* fetch(url, { headers }): the request leaves, and the caller is suspended.
RcFetchSend(s, kind, chat, user) ==
    LET req == [kind |-> kind, chat |-> chat, user |-> user,
                pageToken |-> s.pageToken, bearer |-> RcToken(s),
                check |-> IF kind = "chats" THEN 0 ELSE Len(s.checks) + 1,
                response |-> NoResponse]
    IN  [s EXCEPT !.request = req, !.sent = Append(@, req), !.pc = kind]

\* await fetch(...) resumes with resp
Answered(s, resp) == [s EXCEPT !.sent[Len(s.sent)].response = resp]

\* The part of rcFetch after its await: the error it throws, or Null.
RcFetchError(resp) ==
    IF resp.status = 401 THEN Auth401
    ELSE IF ~ResponseOk(resp) THEN ApiError(resp)
    ELSE IF ~resp.json THEN JsonError
    ELSE Err(Null, 0, FALSE)

\* An rcFetch that throws on a 401 without logging out.
RcFetchReceiveKeep(s, resp) == s

\* An rcFetch that logs out on a 404 as it does on a 401.
RcFetchReceiveOn404(s, resp) ==
    IF resp.status \in {401, 404} THEN HandleLogoutBody(s) ELSE s

\* An rcFetch that logs out on every response that is not 2xx.
RcFetchReceiveAnyFailure(s, resp) ==
    IF ~ResponseOk(resp) THEN HandleLogoutBody(s) ELSE s

\* and its side effect on the way
RcFetchReceive(s, resp) ==
    IF resp.status = 401 THEN HandleLogoutBody(s) ELSE s

----------------------------------------------------------------------------
\* findChats (part_000:235-278, part_000:628-672, part_001:513-560)

\* How a findChats call ended, with allChats and foundChatsList as they were then.
Outcome(how, err, chats, found) ==
    [how |-> how, err |-> err, allChats |-> chats, found |-> found]
NoOutcome == Outcome("none", "", <<>>, <<>>)

\* The local variables of a findChats call that is not running.
NoLocals(s) ==
    [s EXCEPT !.allChats = <<>>, !.pageToken = Null, !.page = 1,
              !.foundChatsList = <<>>, !.chatIdx = 1, !.userIdx = 1,
              !.userIds = <<>>, !.postStartDate = 0, !.postEndDate = 0,
              !.request = Null, !.pc = "idle"]

\* A finally block that leaves the loading flag as it is.
FindChatsFinallyKeepsLoading(s) ==
    LET done == NoLocals(s)
    IN  CASE s.variant = "ReactSingle" -> ForceFlush(Scheduled(done))
          [] s.variant = "Html" -> done
          [] OTHER -> Scheduled(done)

\* finally { ... }, and findChats returns
FindChatsFinally(s) ==
    LET done == NoLocals([s EXCEPT !.loading = FALSE])
    IN  CASE s.variant = "ReactSingle" -> ForceFlush(Scheduled(done))
          [] s.variant = "Html" -> done
          [] OTHER -> Scheduled(done)

\* catch (error) { ... } finally { ... }
FindChatsCatch(s, e) ==
    LET caught ==
          IF s.variant = "ReactMulti"
          THEN [Scheduled(s) EXCEPT !.error = e.kind]
          ELSE LogMessage(s, e.kind, "", e.status, "error")
    IN  FindChatsFinally([caught EXCEPT !.outcome = Outcome("error", e.kind, s.allChats, s.foundChatsList)])

\* the end of the try block
FindChatsComplete(s) ==
    LET n == Len(s.foundChatsList)
        shown == IF s.variant = "ReactMulti"
                 THEN [Scheduled(s) EXCEPT !.results = s.foundChatsList]
                 ELSE s
        logged == LogMessage(shown, "Scan complete.", "", n, "success")
    IN  FindChatsFinally([logged EXCEPT !.outcome = Outcome("complete", "", s.allChats, s.foundChatsList)])

\* rcFetch called for the next page of posts of the chat being scanned.  The
\* catch of checkChatForUserPost rethrows "Not authenticated.": it holds no "404".
PostsRequest(s) ==
    IF RcFetchRefuses(s)
    THEN FindChatsCatch(RcFetchRefusal(s), NotAuthenticated)
    ELSE RcFetchSend(s, "posts", s.allChats[s.chatIdx], s.userIds[s.userIdx])

\* A findChats that starts a check without logging it.
NextCheckSilent(s) ==
    IF s.chatIdx > Len(s.allChats) THEN FindChatsComplete(s)
    ELSE PostsRequest([s EXCEPT !.pageToken = Null])

\* One turn of the loops of findChats: the call of checkChatForUserPost for
\* the pair (chatIdx, userIdx), or the end of the scan.
NextCheck(s) ==
    IF s.chatIdx > Len(s.allChats) THEN FindChatsComplete(s)
    ELSE LET chat == s.allChats[s.chatIdx]
             logged == IF s.variant = "ReactMulti"
                       THEN LogMessage(s, "Scanning for user", chat, s.userIdx, "info")
                       ELSE LogMessage(s, "Scanning chat", chat, s.chatIdx, "info")
         IN  PostsRequest([logged EXCEPT !.pageToken = Null])

\* checkChatForUserPost returned hasMessaged; findChats goes on.
CheckReturns(s, hasMessaged, why) ==
    LET chat == s.allChats[s.chatIdx]
        rec == [chat |-> chat, user |-> s.userIds[s.userIdx],
                result |-> hasMessaged, why |-> why]
        s1 == [s EXCEPT !.checks = Append(@, rec), !.request = Null]
        found ==
          IF ~hasMessaged THEN s1
          ELSE CASE s.variant = "ReactSingle" ->
                      \* part_000:264-268
                      LET l == LogMessage(s1, "User activity found", chat, 0, "success")
                          f == Append(l.foundChatsList, chat)
                      IN  [Scheduled(l) EXCEPT !.foundChatsList = f, !.results = f]
                 [] s.variant = "Html" ->
                      \* part_000:656-664
                      LET l == LogMessage(s1, "User activity found", chat, 0, "success")
                      IN  [l EXCEPT !.foundChatsList = Append(@, chat),
                                    !.results = Append(@, chat)]
                 [] OTHER ->
                      \* part_001:544-550
                      LET l == LogMessage(s1, "User activity found", chat, s.userIdx, "success")
                      IN  IF \E i \in 1..Len(l.foundChatsList) : l.foundChatsList[i] = chat
                          THEN l
                          ELSE [l EXCEPT !.foundChatsList = Append(@, chat)]
        moved ==
          IF s.variant = "ReactMulti" /\ s.userIdx < Len(s.userIds)
          THEN [found EXCEPT !.userIdx = @ + 1]
          ELSE [found EXCEPT !.userIdx = 1, !.chatIdx = @ + 1]
    IN  NextCheck(moved)

\* A scan that never takes a post for older than the start date.
IsOldNever(postTime, start) == FALSE

\* if (postTime < postStartDate)
IsOld(postTime, start) == postTime < start

\* A scan that takes a post by anyone for a post by the user.
IsMatchAnyCreator(post, postUserId, end) == post.creationTime <= end

\* if (post.creatorId === postUserId && postTime <= postEndDate)
IsMatch(post, postUserId, end) ==
    <<post.creatorId>> = postUserId /\ post.creationTime <= end

\* The for loop over data.records of checkChatForUserPost: "old" when it
\* returns false at a post older than the start date, "match" when it returns
\* true, "none" when it runs off the end of the page.
RECURSIVE ScanRecords(_, _, _, _)
ScanRecords(records, postUserId, start, end) ==
    IF records = <<>> THEN "none"
    ELSE LET post == Head(records)
             postTime == post.creationTime
         IN  IF IsOld(postTime, start) THEN "old"
             ELSE IF IsMatch(post, postUserId, end) THEN "match"
             ELSE ScanRecords(Tail(records), postUserId, start, end)

\* catch (error) of checkChatForUserPost
CheckCatch(s, e) ==
    IF MessageIncludes404(e)
    THEN LET chat == s.allChats[s.chatIdx]
             type == IF s.variant = "ReactMulti" THEN "info" ELSE "warn"
             why == IF e.status = 404 THEN "404" ELSE "404 in body"
         IN  CheckReturns(LogMessage(s, "Cannot access posts", chat, 0, type), FALSE, why)
    ELSE FindChatsCatch(s, e)

\* checkChatForUserPost after the await of rcFetch
PostsResponseBody(s, resp) ==
    LET e == RcFetchError(resp)
        s0 == RcFetchReceive(Answered(s, resp), resp)
        data == ServerData(s, s.request)
        chat == s.allChats[s.chatIdx]
        type == IF s.variant = "ReactMulti" THEN "info" ELSE "warn"
    IN  IF e.kind # Null THEN CheckCatch(s0, e)
        ELSE IF data.records = <<>> THEN CheckReturns(s0, FALSE, "empty")
        ELSE LET o == ScanRecords(data.records, s.userIds[s.userIdx],
                                  s.postStartDate, s.postEndDate)
             IN  CASE o = "old" ->
                        CheckReturns(LogMessage(s0, "Reached posts older than start date",
                                                chat, 0, type), FALSE, "old")
                   [] o = "match" -> CheckReturns(s0, TRUE, "match")
                   [] OTHER ->
                        LET s1 == [s0 EXCEPT !.pageToken = data.nextPageToken]
                        IN  IF Truthy(s1.pageToken) THEN PostsRequest(s1)
                            ELSE CheckReturns(s1, FALSE, "exhausted")

\* A paginator that keeps the records of the page it fetched last.
ConcatRecordsLast(all, data) == data.records

\* if (data.records) allChats = allChats.concat(data.records)
ConcatRecords(all, data) == all \o data.records

\* A paginator that stops after its first page.
ContinuePagingNever(tok) == FALSE

\* } while (pageToken)
ContinuePaging(tok) == Truthy(tok)

\* A paginator that asks for a page without logging it.
FetchChatPageSilent(s) ==
    IF RcFetchRefuses(s)
    THEN FindChatsCatch(RcFetchRefusal(s), NotAuthenticated)
    ELSE RcFetchSend(s, "chats", "", <<>>)

\* fetchAllUserChats: the body of its loop up to the await
FetchChatPage(s) ==
    LET logged == LogMessage(s, "Fetching chat page", "", s.page, "info")
    IN  IF RcFetchRefuses(logged)
        THEN FindChatsCatch(RcFetchRefusal(logged), NotAuthenticated)
        ELSE RcFetchSend(logged, "chats", "", <<>>)

\* fetchAllUserChats after the await, and findChats once it returned
ChatsResponseBody(s, resp) ==
    LET e == RcFetchError(resp)
        s0 == RcFetchReceive(Answered(s, resp), resp)
        data == ServerData(s, s.request)
    IN  IF e.kind # Null THEN FindChatsCatch(s0, e)
        ELSE LET s1 == [s0 EXCEPT !.allChats = ConcatRecords(@, data),
                                  !.pageToken = data.nextPageToken,
                                  !.page = @ + 1,
                                  !.request = Null]
             IN  IF ContinuePaging(s1.pageToken) THEN FetchChatPage(s1)
                 ELSE LET l == LogMessage(s1, "Found total chats", "",
                                          Len(s1.allChats), "info")
                      IN  NextCheck([l EXCEPT !.foundChatsList = <<>>,
                                              !.chatIdx = 1, !.userIdx = 1])

NoDate == 0

\* findChats up to its first await
FindChatsBody(s) ==
    LET reset ==
          CASE s.variant = "Html" ->
                  [s EXCEPT !.results = <<>>, !.logs = <<>>, !.loading = TRUE]
            [] s.variant = "ReactSingle" ->
                  [SetLogsValue(Scheduled(s), <<>>) EXCEPT
                      !.results = <<>>, !.logQueue = <<>>, !.loading = TRUE]
            [] OTHER ->
                  [SetLogsValue(Scheduled(s), <<>>) EXCEPT
                      !.results = <<>>, !.logQueue = <<>>, !.error = "",
                      !.loading = TRUE]
        ids == CASE s.variant = "ReactSingle" -> <<s.userId>>
                 [] s.variant = "Html" -> <<TrimText(s.userId)>>
                 [] OTHER -> SplitTrimFilter(s.userId)
        s1 == [reset EXCEPT
                 !.postStartDate = ParseDate(s.startDate),
                 !.postEndDate = SetHoursEndOfDay(ParseDate(s.endDate), s.tz),
                 !.userIds = ids,
                 !.sent = <<>>, !.checks = <<>>, !.emitted = <<>>,
                 !.outcome = Outcome("running", "", <<>>, <<>>)]
        invalid ==
          \/ IF s.variant = "ReactMulti" THEN Len(ids) = 0 ELSE TextEmpty(ids[1])
          \/ s.startDate = NoDate
          \/ s.endDate = NoDate
        rejected ==
          LET r == NoLocals([s1 EXCEPT !.loading = FALSE,
                                       !.outcome = Outcome("invalid", "", <<>>, <<>>)])
          IN  CASE s.variant = "ReactSingle" ->
                      ForceFlush(LogMessage(r, "Please fill in all search fields.",
                                            "", 0, "error"))
                [] s.variant = "Html" ->
                      LogMessage(r, "Please fill in all search fields.", "", 0, "error")
                [] OTHER ->
                      [r EXCEPT !.error = "Please provide at least one User ID"]
        started ==
          LET l1 == LogMessage(s1, "Starting process...", "", 0, "info")
              l2 == LogMessage(l1, "Fetching all chats", "", 0, "info")
          IN  FetchChatPage([l2 EXCEPT !.allChats = <<>>, !.pageToken = Null,
                                       !.page = 1])
    IN  IF invalid THEN rejected ELSE started

----------------------------------------------------------------------------
\* Login

PLACEHOLDER_CLIENT_ID == "YOUR_CLIENT_ID"
ClientIds == {"", "cid"}            \* what may be typed in the client-id field
Verifiers == <<"v1", "v2", "v3", "v4">> \* what generateCodeVerifier returns, call after call
Codes == {"code1"}                  \* authorization codes the server may issue
Tokens == {"tok1"}                  \* access tokens the server may issue
Tabs == {"same", "other"}           \* where the callback opens: the tab that logged in
                                    \* (its session store kept), or one with an empty store

\* Which view is shown: the search controls (TRUE) or the login form.
ShowsApp(s) == IF s.variant = "Html" THEN s.appVisible ELSE Truthy(s.accessToken)

\* window.location.href = authUrl: the page is left, and with it everything
\* in memory, the running scan included.
Navigate(s) ==
    [s EXCEPT !.location = "authServer", !.urlCode = Null,
              !.accessToken = Null, !.appVisible = FALSE,
              !.authPc = "idle", !.tokenRequests = 0, !.exchanged = "none",
              !.logs = <<>>, !.logQueue = <<>>, !.logsPending = <<>>,
              !.dirty = FALSE, !.results = <<>>, !.loading = FALSE, !.error = "",
              !.allChats = <<>>, !.pageToken = Null, !.page = 1,
              !.foundChatsList = <<>>, !.chatIdx = 1, !.userIdx = 1,
              !.userIds = <<>>, !.postStartDate = 0, !.postEndDate = 0,
              !.pc = "idle", !.request = Null, !.sent = <<>>, !.checks = <<>>,
              !.emitted = <<>>, !.outcome = NoOutcome]

\* generateCodeVerifier: 32 random bytes, so no two calls return the same.
GenerateCodeVerifier(s) ==
    LET k == 2 * s.loads + Len(s.pendingLogins) + 1
    IN  Verifiers[IF k <= Len(Verifiers) THEN k ELSE Len(Verifiers)]

\* generateCodeChallenge: base64url(SHA-256(verifier))
GenerateCodeChallenge(verifier) == "S256-of-" \o verifier

\* The authorization URL: its client_id and code_challenge parameters.
AuthUrl(clientId, codeChallenge) == [client_id |-> clientId, code_challenge |-> codeChallenge]
NoUrl == AuthUrl(Null, Null)

\* A login that starts whatever the client id is.
ClientIdMissingNever(s, clientId) == FALSE

\* if (!clientId) / if (CLIENT_ID === "YOUR_CLIENT_ID")
ClientIdMissing(s, clientId) ==
    IF s.variant = "ReactMulti" THEN s.CLIENT_ID = PLACEHOLDER_CLIENT_ID
    ELSE ~Truthy(clientId)

\* handleLogin up to its await (part_000:87-98, part_000:529-540, part_001:370-378)
HandleLoginBody(s, clientId, codeVerifier) ==
    LET stored == [s EXCEPT !.sessionStorage[VERIFIER_KEY] = codeVerifier]
        awaits(s1, id) ==
          [s1 EXCEPT !.pendingLogins =
                        Append(@, [clientId |-> id, codeVerifier |-> codeVerifier])]
    IN  IF ClientIdMissing(s, clientId)
        THEN CASE s.variant = "ReactSingle" ->
                    ForceFlush(LogMessage(s, "Client ID is required.", "", 0, "error"))
               [] s.variant = "Html" ->
                    LogMessage(s, "Client ID is required.", "", 0, "error")
               [] OTHER ->
                    [Scheduled(s) EXCEPT !.error = "Configuration needed"]
        ELSE IF s.variant = "ReactMulti" THEN awaits(stored, s.CLIENT_ID)
        ELSE awaits([stored EXCEPT !.sessionStorage[CLIENT_KEY] = clientId], clientId)

\* handleLogin after its await (part_000:98-101, part_000:540-543, part_001:378-381)
HandleLoginResume(s) ==
    LET call == Head(s.pendingLogins)
        codeChallenge == GenerateCodeChallenge(call.codeVerifier)
    IN  [Navigate(s) EXCEPT !.pendingLogins = Tail(s.pendingLogins),
                            !.authUrl = AuthUrl(call.clientId, codeChallenge)]

\* An exchange that goes on whatever the store holds.
CallbackDataMissingNever(s, code) == FALSE

\* if (!code || !storedClientId || !codeVerifier) / if (!code || !codeVerifier)
CallbackDataMissing(s, code) ==
    LET storedClientId == s.sessionStorage[CLIENT_KEY]
        codeVerifier == s.sessionStorage[VERIFIER_KEY]
    IN  IF s.variant = "ReactMulti"
        THEN ~Truthy(code) \/ ~Truthy(codeVerifier)
        ELSE ~Truthy(code) \/ ~Truthy(storedClientId) \/ ~Truthy(codeVerifier)

\* exchangeCodeForToken up to its await
\* (part_000:118-143, part_000:560-583, part_001:398-421)
ExchangeCodeForTokenBody(s, code) ==
    LET logged == LogMessage(s, "Exchanging authorization code", "", 0, "info")
    IN  IF CallbackDataMissing(s, code)
        THEN IF s.variant = "ReactMulti"
             THEN [Scheduled(s) EXCEPT !.error = "OAuth callback data missing",
                                       !.exchanged = "missing"]
             ELSE LogMessage([s EXCEPT !.exchanged = "missing"],
                             "OAuth callback data missing", "", 0, "error")
        ELSE [logged EXCEPT !.authPc = "token", !.tokenRequests = @ + 1,
                            !.exchanged = "pending"]

\* The page is loaded (the App component mounts, DOMContentLoaded fires) with
\* `code` as the code parameter of its URL, or Null
\* (part_000:28-62, part_000:725-754, part_001:303-339).
PageLoadBody(s, code) ==
    LET storedToken == s.sessionStorage[TOKEN_KEY]
        fresh == [Navigate(s) EXCEPT
                    !.location = "app", !.urlCode = code,
                    !.pendingLogins = <<>>, !.authUrl = NoUrl,
                    !.accessToken = IF IsReact(s) /\ Truthy(storedToken)
                                    THEN storedToken ELSE Null]
    IN  IF Truthy(code) THEN ExchangeCodeForTokenBody(fresh, code)
        ELSE IF s.variant = "Html" /\ Truthy(storedToken)
        THEN LogMessage([fresh EXCEPT !.accessToken = storedToken, !.appVisible = TRUE],
                        "Logged in from previous session.", "", 0, "info")
        ELSE fresh

\* An exchange that takes every response for a success.
ResponseNotOkNever(ok) == FALSE

\* if (!response.ok) throw ...
ResponseNotOk(ok) == ~ok

\* exchangeCodeForToken after its await.  access_token is the access_token
\* field of the JSON body of a 2xx response: a token, or Null when the body
\* has no such field.
\* (part_000:144-158, part_000:585-601, part_001:423-433)
TokenResponseBody(s, ok, access_token) ==
    LET done == [s EXCEPT !.authPc = "idle",
                          !.exchanged = IF ok THEN "ok" ELSE "failed"]
        \* sessionStorage stores strings: setItem(key, undefined) stores "undefined"
        asString == IF access_token = Null THEN "undefined" ELSE access_token
        stored == [done EXCEPT !.sessionStorage[TOKEN_KEY] = asString,
                               !.accessToken = access_token]
    IN  IF ResponseNotOk(ok)
        THEN CASE s.variant = "ReactSingle" ->
                    ForceFlush(LogMessage(done, "Token exchange failed", "", 0, "error"))
               [] s.variant = "Html" ->
                    LogMessage(done, "Token exchange failed", "", 0, "error")
               [] OTHER ->
                    [Scheduled(done) EXCEPT !.error = "Token exchange failed"]
        ELSE LET l == LogMessage(Scheduled(stored),
                                 "Successfully obtained access token.", "", 0, "success")
                 clean == [l EXCEPT !.urlCode = Null,
                                    !.appVisible = (s.variant = "Html")]
             IN  IF s.variant = "ReactSingle" THEN ForceFlush(clean) ELSE clean

----------------------------------------------------------------------------
\* What a scan is run on: the form as the user fills it in, the zone of the
\* browser, and the chats and posts the remote service holds.  They are fixed
\* in the initial state and stay as they are.

Post(creatorId, creationTime) == [creatorId |-> creatorId, creationTime |-> creationTime]

MaxChatPages == 2       \* pages of the chat list
MaxChats == 2           \* chats in the chat list
MaxPostPages == 3       \* pages of posts of a chat scanned in depth
MaxPageLen == 1         \* posts on one page of such a chat

\* Instants around the window of day 1 (time zone 0): before it (two of
\* them), in it, after it.
Before == ParseDate(1) - 1
Older == Before - 1
Within == ParseDate(1) + 1
After == ParseDate(2)

NoPosts == [c \in ChatIds |-> << <<>> >>]

\* Chat lists: every way to put at most MaxChats chats on at most MaxChatPages
\* pages, a chat possibly listed twice; the chats are named in the order of
\* their first appearance.
ChatNames == <<"c1", "c2", "c3">>
ChatLists ==
    { cl \in NonEmptySeqsUpTo(SeqsUpTo(ChatIds, MaxChats), MaxChatPages) :
        /\ Len(Concat(cl)) <= MaxChats
        /\ LET list == Concat(cl)
           IN  \A i \in 1..Len(list) :
                  \E k \in 1..Len(ChatNames) :
                     /\ list[i] = ChatNames[k]
                     /\ \A j \in 1..(k - 1) : \E h \in 1..(i - 1) : list[h] = ChatNames[j] }

\* A chat list of one chat whose posts take every shape within the bounds.
DeepPosts == {Post("u1", Within), Post("u2", Within), Post("u1", Before), Post("u2", Older)}
DeepWorlds ==
    { [chatPages |-> << <<"c1">> >>, postPages |-> [NoPosts EXCEPT !["c1"] = tl]] :
        tl \in NonEmptySeqsUpTo(SeqsUpTo(DeepPosts, MaxPageLen), MaxPostPages) }

\* Some post within the window by each of the two users, or none, or one too new.
ThinTimelines ==
    { << <<>> >>, << <<Post("u1", Within)>> >>, << <<Post("u2", Within)>> >>,
      << <<Post("u1", After)>> >> }

\* Chat lists of every shape within the bounds, each chat holding one post by u1.
PagedWorlds ==
    { [chatPages |-> cl,
       postPages |-> [c \in ChatIds |-> << <<Post("u1", Within)>> >>]] :
        cl \in ChatLists }

\* Chat lists of one page, over chats of one page of at most one post.
WideWorlds ==
    { w \in [chatPages : {x \in ChatLists : Len(x) = 1 /\ x # << <<>> >>},
             postPages : [ChatIds -> ThinTimelines]] :
        \A c \in ChatIds :
           \/ w.postPages[c] = << <<>> >>
           \/ \E i \in 1..Len(w.chatPages[1]) : w.chatPages[1][i] = c }

\* The form: the user-id text, the two dates, and the zone of the browser.
Form(u, sd, ed, zone) == [userId |-> u, startDate |-> sd, endDate |-> ed, tz |-> zone]
Scenario(w, f) ==
    [chatPages |-> w.chatPages, postPages |-> w.postPages,
     userId |-> f.userId, startDate |-> f.startDate, endDate |-> f.endDate,
     tz |-> f.tz]

\* One chat holding one post by u1 on day 1.
SmallWorld ==
    [chatPages |-> << <<"c1">> >>,
     postPages |-> [NoPosts EXCEPT !["c1"] = << <<Post("u1", Within)>> >>]]

\* Forms filled in badly: no user id, blanks only, a blank element in a list
\* of ids, a date left out, the start date after the end date.
EdgeForms ==
    { Form(<<"">>, 1, 1, 0), Form(<<" ">>, 1, 1, 0), Form(<<"u1", " ">>, 1, 1, 0),
      Form(<<"u1">>, NoDate, 1, 0), Form(<<"u1">>, 1, NoDate, 0),
      Form(<<"u1">>, 2, 1, 0) }

\* One chat without posts.
QuietWorld == [chatPages |-> << <<"c1">> >>, postPages |-> NoPosts]

\* Browsers west and east of UTC: local time is UTC + zone ticks.
Zones == {-1, 1}
ZoneForms == { Form(<<"u1">>, 1, 1, zone) : zone \in Zones }

Scenarios ==
    { Scenario(w, Form(<<"u1">>, 1, 1, 0)) : w \in DeepWorlds \cup PagedWorlds }
    \cup { Scenario(w, Form(<<"u1", " u2">>, 1, 1, 0)) : w \in WideWorlds }
    \cup { Scenario(SmallWorld, f) : f \in EdgeForms }
    \cup { Scenario(QuietWorld, f) : f \in ZoneForms }

----------------------------------------------------------------------------
\* The steps.  React renders a scheduled update before the next response or
\* click is handled (~dirty in their guards); only the log interval, a timer
\* task like the render itself, may run between an update and its render.

MaxClicks == 2          \* clicks of the user on one load of the page
MaxLoads == 1           \* redirects back from the authorization server
MaxTicks == 1           \* flushes by the log interval on one load of the page

Clicked(s) == [s EXCEPT !.clicks = @ + 1]

\* A "Find Chats" button that is never disabled.
FindChatsDisabledNever(s) == FALSE

\* disabled={loading} / findChatsBtn.disabled
FindChatsDisabled(s) == s.loading

\* A click on "Find Chats".
FindChats ==
    /\ ~dirty /\ location = "app" /\ ShowsApp(Cur) /\ ~FindChatsDisabled(Cur)
    /\ clicks < MaxClicks
    /\ Becomes(FindChatsBody(Clicked(Cur)))

\* The response to a chat-list request arrives.
ChatsResponse ==
    /\ ~dirty /\ location = "app" /\ pc = "chats"
    /\ \E resp \in Responses : Becomes(ChatsResponseBody(Cur, resp))

\* The response to a posts request arrives.
PostsResponse ==
    /\ ~dirty /\ location = "app" /\ pc = "posts"
    /\ \E resp \in Responses : Becomes(PostsResponseBody(Cur, resp))

\* A click on "Logout".
HandleLogout ==
    /\ ~dirty /\ location = "app" /\ ShowsApp(Cur)
    /\ clicks < MaxClicks
    /\ Becomes(HandleLogoutBody(Clicked(Cur)))

\* The 500 ms interval fires with entries in the queue.
TimerTick ==
    /\ location = "app" /\ IsReact(Cur) /\ logQueue # <<>>
    /\ ticks < MaxTicks
    /\ Becomes(TimerTickBody([Cur EXCEPT !.ticks = @ + 1]))

\* React renders App.
Render ==
    /\ location = "app" /\ IsReact(Cur) /\ dirty
    /\ Becomes(RenderApp(Cur))

\* A click on "Login with RingCentral".
HandleLogin ==
    /\ ~dirty /\ location = "app" /\ ~ShowsApp(Cur)
    /\ clicks < MaxClicks
    /\ \E clientId \in ClientIds :
          Becomes(HandleLoginBody(Clicked(Cur), clientId, GenerateCodeVerifier(Cur)))

\* The digest of generateCodeChallenge is ready: the handleLogin call that
\* waited longest goes on.  A call may still go on while the browser is
\* leaving the page for the URL an earlier call sent it to.
ChallengeReady ==
    /\ pendingLogins # <<>>
    /\ Becomes(HandleLoginResume(Cur))

\* The authorization server redirects back to the application.
PageLoad ==
    /\ location = "authServer"
    /\ loads < MaxLoads
    /\ \E code \in Codes, tab \in Tabs :
          Becomes(PageLoadBody([Cur EXCEPT
                                  !.loads = @ + 1, !.clicks = 0, !.ticks = 0,
                                  !.sessionStorage = IF tab = "same" THEN @ ELSE EmptyStorage],
                               code))

\* The response of the token endpoint arrives.
TokenResponse ==
    /\ ~dirty /\ location = "app" /\ authPc = "token"
    /\ \E ok \in BOOLEAN, access_token \in Tokens \cup {Null} :
          Becomes(TokenResponseBody(Cur, ok, access_token))

Init ==
    /\ variant \in Variants
    /\ CLIENT_ID \in (IF variant = "ReactMulti"
                      THEN {PLACEHOLDER_CLIENT_ID, "cid"} ELSE {Null})
    /\ \E sc \in Scenarios :
          /\ chatPages = sc.chatPages /\ postPages = sc.postPages
          /\ userId = sc.userId /\ startDate = sc.startDate /\ endDate = sc.endDate
          /\ tz = sc.tz
    /\ location = "app" /\ urlCode = Null
    /\ sessionStorage = EmptyStorage /\ accessToken = Null
    /\ authPc = "idle" /\ tokenRequests = 0
    /\ pendingLogins = <<>> /\ authUrl = NoUrl /\ exchanged = "none"
    /\ logs = <<>> /\ logQueue = <<>> /\ logsPending = <<>> /\ dirty = FALSE
    /\ results = <<>> /\ loading = FALSE /\ error = "" /\ appVisible = FALSE
    /\ pc = "idle" /\ allChats = <<>> /\ pageToken = Null /\ page = 1
    /\ foundChatsList = <<>> /\ chatIdx = 1 /\ userIdx = 1 /\ userIds = <<>>
    /\ postStartDate = 0 /\ postEndDate = 0
    /\ request = Null /\ sent = <<>> /\ checks = <<>> /\ emitted = <<>>
    /\ outcome = NoOutcome
    /\ clicks = 0 /\ loads = 0 /\ ticks = 0

Next ==
    \/ FindChats
    \/ ChatsResponse
    \/ PostsResponse
    \/ HandleLogout
    \/ TimerTick
    \/ Render
    \/ HandleLogin
    \/ ChallengeReady
    \/ PageLoad
    \/ TokenResponse

Spec == Init /\ [][Next]_vars

----------------------------------------------------------------------------
\* Properties.  They are stated over the remote service's data, the form, and
\* the histories `sent`, `checks`, `emitted` and `outcome` of the current scan.

IsPrefix(a, b) == Len(a) <= Len(b) /\ SubSeq(b, 1, Len(a)) = a
Range(f) == {f[i] : i \in DOMAIN f}

\* The window the form asks for: the first instant of startDate to the last
\* instant of endDate.
WindowStart == ParseDate(startDate)
WindowEnd == ParseDate(endDate) + (DayTicks - 1)

Old(post) == post.creationTime < WindowStart
Qualifies(post, user) ==
    /\ <<post.creatorId>> = user
    /\ WindowStart <= post.creationTime /\ post.creationTime <= WindowEnd
HasOld(records) == \E j \in 1..Len(records) : Old(records[j])
HasQualifying(records, user) == \E j \in 1..Len(records) : Qualifies(records[j], user)
\* Reading the records in order, a qualifying post comes before any old one.
MeetsQualifying(records, user) ==
    \E j \in 1..Len(records) :
       /\ Qualifies(records[j], user)
       /\ \A i \in 1..(j - 1) : ~Old(records[i])
StrictlyDescending(posts) ==
    \A i, j \in 1..Len(posts) : i < j => posts[i].creationTime > posts[j].creationTime

\* The requests of the paginator, and those of the k-th per-chat scan.
ChatRequests == SelectSeq(sent, LAMBDA r : r.kind = "chats")
RequestsOfCheck(k) == SelectSeq(sent, LAMBDA r : r.kind = "posts" /\ r.check = k)
Succeeded(r) == r.response.status = 200 /\ r.response.json
AllSucceeded(reqs) == \A i \in 1..Len(reqs) : Succeeded(reqs[i])

\* fetchAllUserChats has returned to the findChats that is running or has
\* completed, and what it returned.
FetchAllUserChatsReturned == pc = "posts" \/ outcome.how = "complete"
ReturnedChats == IF pc = "posts" THEN allChats ELSE outcome.allChats

\* C1: the paginator returns exactly the concatenation, in page order, of the
\* records of all pages of the chat list.
C1_PaginatorConcatenates ==
    FetchAllUserChatsReturned => ReturnedChats = Concat(chatPages)

C1_Witness ==
    /\ FetchAllUserChatsReturned
    /\ Len(chatPages) >= 2 /\ chatPages[1] # <<>> /\ chatPages[2] # <<>>
    /\ ReturnedChats = chatPages[1] \o chatPages[2]

\* C2: over N chat-list pages the paginator issues exactly N requests, the
\* first without a cursor, each later one with the cursor of the response
\* before it, and none after the response without a cursor.
C2_OneRequestPerPage ==
    LET reqs == ChatRequests
    IN  /\ Len(reqs) <= Len(chatPages)
        /\ \A i \in 1..Len(reqs) :
              IF i = 1 THEN reqs[i].pageToken = Null
              ELSE /\ Succeeded(reqs[i - 1])
                   /\ reqs[i].pageToken = ServerData(Cur, reqs[i - 1]).nextPageToken
                   /\ reqs[i].pageToken # Null
        /\ FetchAllUserChatsReturned => Len(reqs) = Len(chatPages)

C2_Witness ==
    /\ FetchAllUserChatsReturned
    /\ Len(chatPages) >= 2 /\ Len(ChatRequests) = Len(chatPages)
    /\ ChatRequests[2].pageToken = TokenOfPage(2)

\* Three pages of posts, newest first, the first post older than the start
\* date on page 2, and no qualifying post on pages 1 and 2.
BoundaryInSecondOfThree(pages, user) ==
    /\ Len(pages) = 3
    /\ \A i \in 1..3 : pages[i] # <<>>
    /\ StrictlyDescending(Concat(pages))
    /\ ~HasOld(pages[1]) /\ HasOld(pages[2])
    /\ ~HasQualifying(pages[1], user) /\ ~HasQualifying(pages[2], user)

\* C3: a per-chat scan that meets a post older than the start date reports no
\* match and requests no further page: its requests end with the first page
\* that holds such a post.  For three pages newest first with the boundary on
\* page 2 and no qualifying post before it, that is 2 requests and no match.
C3_EarlyExit ==
    \A k \in 1..Len(checks) :
       LET pages == postPages[checks[k].chat]
           reqs == RequestsOfCheck(k)
           n == Len(reqs)
       IN  /\ checks[k].why = "old" =>
                /\ ~checks[k].result
                /\ n \in 1..Len(pages) /\ HasOld(pages[n])
                /\ \A i \in 1..(n - 1) : ~HasOld(pages[i])
                /\ \A i \in 1..n : reqs[i].pageToken = (IF i = 1 THEN Null ELSE TokenOfPage(i))
           /\ (BoundaryInSecondOfThree(pages, checks[k].user) /\ AllSucceeded(reqs)) =>
                /\ ~checks[k].result
                /\ n = 2

C3_Witness ==
    \E k \in 1..Len(checks) :
       /\ checks[k].why = "old"
       /\ BoundaryInSecondOfThree(postPages[checks[k].chat], checks[k].user)
       /\ Len(RequestsOfCheck(k)) = 2

\* C4: a per-chat scan reports a match exactly when it meets a qualifying post,
\* and requests no page after the one that holds it; a qualifying post met on
\* the first page makes 1 request.
C4_MatchShortCircuit ==
    \A k \in 1..Len(checks) :
       LET pages == postPages[checks[k].chat]
           user == checks[k].user
           reqs == RequestsOfCheck(k)
           n == Len(reqs)
       IN  /\ checks[k].result = (checks[k].why = "match")
           /\ checks[k].why = "match" =>
                /\ n \in 1..Len(pages) /\ MeetsQualifying(pages[n], user)
                /\ \A i \in 1..(n - 1) : ~HasQualifying(pages[i], user)
           /\ (MeetsQualifying(pages[1], user) /\ AllSucceeded(reqs)) =>
                /\ checks[k].result
                /\ n = 1

C4_Witness ==
    \E k \in 1..Len(checks) :
       /\ checks[k].why = "match"
       /\ Len(postPages[checks[k].chat]) > 1
       /\ MeetsQualifying(postPages[checks[k].chat][1], checks[k].user)
       /\ Len(RequestsOfCheck(k)) = 1

\* C5: a post-page request that fails with status 404 makes its chat a
\* no-match and emits a warn log entry for that chat.
C5_WarnLogOn404 ==
    \A k \in 1..Len(checks) :
       checks[k].why = "404" =>
          /\ ~checks[k].result
          /\ \E i \in 1..Len(emitted) :
                emitted[i] = LogEntry("Cannot access posts", checks[k].chat, 0, "warn")

\* C6: a post-page request that fails with a status other than 404 is the last
\* request of the scan, and the scan ends with an error.
C6_Only404Swallowed ==
    \A i \in 1..Len(sent) :
       LET r == sent[i].response
       IN  (/\ sent[i].kind = "posts"
            /\ r # NoResponse /\ ~Succeeded(sent[i])
            /\ r.status # 404) =>
               /\ i = Len(sent)
               /\ outcome.how = "error"

\* C7: after a request of the scan was answered 401 (and before the user logs
\* in again), the token and the verifier are absent, the scan has issued no further request, and the result
\* set shown is the sequence of chats found before that request.
C7_AbortOn401 ==
    \A i \in 1..Len(sent) :
       (sent[i].response.status = 401 /\ pendingLogins = <<>>) =>
          /\ i = Len(sent)
          /\ outcome.how = "error"
          /\ sessionStorage[TOKEN_KEY] = Null /\ sessionStorage[VERIFIER_KEY] = Null
          /\ accessToken = Null
          /\ results = outcome.found

\* The session of the state s, and whether it is the logged-out one.
SessionOf(s) == [storage |-> s.sessionStorage, token |-> s.accessToken]
LoggedOut(s) ==
    /\ s.sessionStorage[TOKEN_KEY] = Null /\ s.sessionStorage[VERIFIER_KEY] = Null
    /\ s.accessToken = Null
    /\ ~ShowsApp(s)

\* A step in which handleLogout runs: the click on "Logout", or a response
\* with status 401.
LogoutStep ==
    \/ HandleLogout
    \/ /\ sent # <<>> /\ Len(sent') = Len(sent)
       /\ sent[Len(sent)].response = NoResponse
       /\ sent'[Len(sent)].response.status = 401

\* C8: logout, from any state, leaves the token and the verifier both absent
\* and the client logged out, and a second logout right after it leaves the
\* same session.
C8_LogoutClearsSession ==
    /\ [](LET once == HandleLogoutBody(Cur)
              twice == HandleLogoutBody(once)
          IN  /\ LoggedOut(once) /\ LoggedOut(twice)
              /\ SessionOf(twice) = SessionOf(once))
    /\ [][LogoutStep => LoggedOut(Cur)']_vars

\* Logged out twice in one scan, with a verifier in the store before.
C8_Witness ==
    /\ LoggedOut(Cur)
    /\ outcome.how = "error" /\ outcome.err = Auth401.kind
    /\ Cardinality({i \in 1..Len(logs) : logs[i].message = "Logged out successfully."}) = 2

\* C9: a findChats that completes without a failed request, over chats whose
\* posts come newest first, shows exactly the chats of the chat list that hold
\* a post by the requested user inside the window (forms of one user id).
C9_ResultSet ==
    (/\ outcome.how = "complete" /\ ShowsApp(Cur)
     /\ AllSucceeded(sent)
     /\ Len(userId) = 1
     /\ \A c \in ChatIds : StrictlyDescending(Concat(postPages[c]))) =>
        Range(results) =
           {c \in Range(outcome.allChats) :
               HasQualifying(Concat(postPages[c]), TrimText(userId))}

\* C10: while a findChats runs, every step other than a click of the user
\* leaves the result set and the log shown as they were or extends them.
C10_LiveViewsGrow ==
    [][(outcome.how = "running" /\ clicks' = clicks /\ loads' = loads) =>
          (IsPrefix(results, results') /\ IsPrefix(logs, logs'))]_vars

\* C11: while a findChats runs, every chat a finished check has found is in
\* the result set shown, so it is shown before the scan of the next chat begins.
C11_LiveResults ==
    outcome.how = "running" =>
       \A k \in 1..Len(checks) :
          checks[k].result => \E i \in 1..Len(results) : results[i] = checks[k].chat

\* The entries the log shows once the scheduled render has run.
LogsAfterRender(s) == ApplyPending(s.logs, s.logsPending, s.logQueue)

\* C12: no entry is lost on its way to the log.  Every entry logMessage took
\* since the log was last emptied is shown, or still in the queue, or carried
\* by an update the next render applies; an entry in none of these places can
\* never be shown, whatever ticks and flushes follow.  (The logout of part_001
\* replaces the log, so the property is stated for the logs of part_000.)
C12_NoEntryLost ==
    variant # "ReactMulti" =>
       \A k \in 1..Len(emitted) :
          emitted[k] \in Range(LogsAfterRender(Cur)) \cup Range(logQueue)

\* C13: the step in which a findChats ends, by completion or by an error,
\* leaves the queue empty and every entry the scan emitted in the log shown
\* (at the latest by the render that step scheduled), without a timer tick.
C13_FlushAtEnd ==
    [][(outcome.how = "running" /\ outcome'.how \in {"complete", "error"}) =>
          (/\ logQueue' = <<>>
           /\ \A k \in 1..Len(emitted') :
                 emitted'[k] \in Range(LogsAfterRender(Cur)'))]_vars

\* The login form is shown and takes a click.
LoginOffered == location = "app" /\ ~ShowsApp(Cur)

\* No client id is configured: the field is empty (part_000), the compiled-in
\* constant is still the placeholder (part_001).
NoClientId(clientId) ==
    IF variant = "ReactMulti" THEN CLIENT_ID = PLACEHOLDER_CLIENT_ID ELSE clientId = ""

\* The configuration error is what the state s reports last.
ConfigurationErrorShown(s) ==
    IF s.variant = "ReactMulti" THEN s.error = "Configuration needed"
    ELSE /\ s.emitted # <<>>
         /\ s.emitted[Len(s.emitted)] = LogEntry("Client ID is required.", "", 0, "error")

\* C14: a click on Login without a client id reports the configuration error
\* and does nothing else: the store is as before (no verifier written), no
\* call awaits the challenge, the page is not left, and no token appears.
C14_NoClientIdNoLogin ==
    LoginOffered =>
       \A clientId \in ClientIds :
          NoClientId(clientId) =>
             LET after == HandleLoginBody(Cur, clientId, GenerateCodeVerifier(Cur))
             IN  /\ ConfigurationErrorShown(after)
                 /\ after.sessionStorage = sessionStorage
                 /\ after.pendingLogins = pendingLogins
                 /\ after.location = "app" /\ after.authUrl = authUrl
                 /\ after.accessToken = accessToken /\ ~ShowsApp(after)
                 /\ after.tokenRequests = tokenRequests

\* A login without a client id has been refused: the error is reported, the
\* store holds no verifier, and the login form is still shown.
C14_Witness ==
    /\ LoginOffered /\ ConfigurationErrorShown(Cur) /\ clicks > 0
    /\ sessionStorage[VERIFIER_KEY] = Null /\ pendingLogins = <<>>

\* C15: once handleLogin has sent the browser to the authorization URL, the
\* store holds a verifier, the code_challenge of the URL is the challenge of
\* exactly that verifier, the client awaits the callback, and no token exists.
C15_ChallengeOfStoredVerifier ==
    authUrl # NoUrl =>
       /\ location = "authServer"
       /\ Truthy(sessionStorage[VERIFIER_KEY])
       /\ authUrl.code_challenge = GenerateCodeChallenge(sessionStorage[VERIFIER_KEY])
       /\ sessionStorage[TOKEN_KEY] = Null /\ accessToken = Null

\* What the callback needs is not all in the store st: the verifier, and in
\* part_000 the client id (part_001 compiles its client id in).
StoredDataAbsent(st) ==
    \/ st[VERIFIER_KEY] = Null
    \/ variant # "ReactMulti" /\ st[CLIENT_KEY] = Null

\* The session-expired error is what the state s reports last.
CallbackDataErrorShown(s) ==
    IF s.variant = "ReactMulti" THEN s.error = "OAuth callback data missing"
    ELSE /\ s.emitted # <<>>
         /\ s.emitted[Len(s.emitted)] = LogEntry("OAuth callback data missing", "", 0, "error")

\* C16: a page that loads with a code while the store lacks the verifier or
\* the client id reports the session-expired error, sends no token request,
\* and creates no token.
C16_NoExchangeWithoutSession ==
    [][(loads' = loads + 1 /\ Truthy(urlCode') /\ StoredDataAbsent(sessionStorage')) =>
          (/\ CallbackDataErrorShown(Cur)'
           /\ tokenRequests' = 0 /\ authPc' = "idle"
           /\ sessionStorage'[TOKEN_KEY] = Null /\ accessToken' = Null
           /\ ~ShowsApp(Cur)')]_vars

\* The callback was opened without its session: the error is reported and no
\* token request has been sent.
C16_Witness ==
    /\ exchanged = "missing" /\ Truthy(urlCode) /\ StoredDataAbsent(sessionStorage)
    /\ CallbackDataErrorShown(Cur) /\ tokenRequests = 0

\* The token-exchange error is what the state s reports last.
TokenExchangeErrorShown(s) ==
    IF s.variant = "ReactMulti" THEN s.error = "Token exchange failed"
    ELSE /\ s.emitted # <<>>
         /\ s.emitted[Len(s.emitted)] = LogEntry("Token exchange failed", "", 0, "error")

\* C17: while the token request is in flight, a response that is not 2xx
\* ends the exchange with the token-exchange error: the store and the token
\* in memory stay as they were (no token is persisted), a client without a
\* token stays logged out, and the request was the only one: one sent, none
\* in flight after it.
C17_FailedExchange ==
    authPc = "token" =>
       \A access_token \in Tokens \cup {Null} :
          LET after == TokenResponseBody(Cur, FALSE, access_token)
          IN  /\ TokenExchangeErrorShown(after)
              /\ after.sessionStorage = sessionStorage
              /\ after.accessToken = accessToken
              /\ sessionStorage[TOKEN_KEY] = Null =>
                    (after.accessToken = Null /\ ~ShowsApp(after))
              /\ after.tokenRequests = 1 /\ after.authPc = "idle"

\* An exchange has failed: the error is reported, one request was sent, and
\* there is no token.
C17_Witness ==
    /\ exchanged = "failed" /\ TokenExchangeErrorShown(Cur)
    /\ tokenRequests = 1 /\ authPc = "idle"
    /\ sessionStorage[TOKEN_KEY] = Null /\ accessToken = Null /\ ~ShowsApp(Cur)

\* C18: once an exchange that sent its token request has ended, with a token
\* or with an error, the URL shown holds no code any more.
C18_CodeLeavesUrl ==
    exchanged \in {"ok", "failed"} => urlCode = Null

\* C19: once an exchange that sent its token request has ended, with a token
\* or with an error, the session store holds no verifier.
C19_VerifierConsumed ==
    (exchanged \in {"ok", "failed"} /\ pendingLogins = <<>>) =>
       sessionStorage[VERIFIER_KEY] = Null

\* A step in which a request of the scan is answered with status 401.
Receives401 ==
    /\ sent # <<>> /\ Len(sent') = Len(sent)
    /\ sent[Len(sent)].response = NoResponse
    /\ sent'[Len(sent)].response.status = 401

\* The state s reports the auth-expired error, and reports it after the
\* logout: in part_000 the entry of handleLogout precedes the error entry,
\* in part_001 the error is set after handleLogout has emptied it.
AuthErrorAfterLogout(s) ==
    IF s.variant = "ReactMulti" THEN s.error = Auth401.kind
    ELSE LET n == Len(s.emitted)
         IN  /\ n >= 2
             /\ s.emitted[n] = LogEntry(Auth401.kind, "", Auth401.status, "error")
             /\ s.emitted[n - 1] = LogEntry("Logged out successfully.", "", 0, "info")

\* C20: the step that receives a 401 ends logged out (no token, no verifier,
\* the login form shown) and ends the scan with the auth-expired error, and
\* the logout is done before the error is reported.
C20_Forced401Logout ==
    [][Receives401 =>
          (/\ LoggedOut(Cur)'
           /\ outcome'.how = "error" /\ outcome'.err = Auth401.kind
           /\ AuthErrorAfterLogout(Cur)'
           /\ request' = Null /\ pc' = "idle")]_vars

\* A scan was ended by a 401: the client is logged out and the auth-expired
\* error is reported.
C20_Witness ==
    /\ sent # <<>> /\ sent[Len(sent)].response.status = 401
    /\ outcome.how = "error" /\ outcome.err = Auth401.kind
    /\ LoggedOut(Cur) /\ AuthErrorAfterLogout(Cur)

\* A step in which a request of the scan is answered with a status that is
\* neither 2xx nor 401.
ReceivesApiFailure ==
    /\ sent # <<>> /\ Len(sent') >= Len(sent)
    /\ sent[Len(sent)].response = NoResponse
    /\ sent'[Len(sent)].response # NoResponse
    /\ ~ResponseOk(sent'[Len(sent)].response)
    /\ sent'[Len(sent)].response.status # 401

\* The API error of that step ended the scan, or, thrown to
\* checkChatForUserPost with "404" in its message, ended the check of the chat.
ApiErrorRaised(s, i) ==
    \/ s.outcome.how = "error" /\ s.outcome.err = ApiError(s.sent[i].response).kind
    \/ /\ s.sent[i].kind = "posts" /\ s.sent[i].check <= Len(s.checks)
       /\ s.checks[s.sent[i].check].why \in {"404", "404 in body"}

\* C21: the step that receives a response that is neither 2xx nor 401 raises
\* an API error and leaves the session as it was: the store (token and
\* verifier), the token in memory, and the view shown.
C21_ApiErrorKeepsSession ==
    [][ReceivesApiFailure =>
          (/\ ApiErrorRaised(Cur', Len(sent))
           /\ sessionStorage' = sessionStorage
           /\ accessToken' = accessToken
           /\ ShowsApp(Cur)' = ShowsApp(Cur))]_vars

\* A scan of a logged-in client was ended by an API error of status 500, and
\* the client is still logged in.
C21_Witness ==
    /\ sent # <<>> /\ sent[Len(sent)].response.status = 500
    /\ outcome.how = "error" /\ outcome.err = "API Error"
    /\ Truthy(sessionStorage[TOKEN_KEY]) /\ Truthy(sessionStorage[VERIFIER_KEY])
    /\ ShowsApp(Cur)

\* A step in which rcFetch sends a request.
SendsRequest ==
    /\ sent' # sent /\ sent' # <<>>
    /\ sent'[Len(sent')].response = NoResponse

\* The state a suspended scan is in once its request is answered with resp.
Resumed(resp) ==
    IF pc = "chats" THEN ChatsResponseBody(Cur, resp) ELSE PostsResponseBody(Cur, resp)

\* C22: every request rcFetch has sent carries a token as its bearer, the
\* token of the client when it was sent; and a scan that goes on while the
\* client has no token sends nothing more and ends.
C22_BearerOnEveryRequest ==
    /\ [](\A i \in 1..Len(sent) : Truthy(sent[i].bearer))
    /\ [][SendsRequest => sent'[Len(sent')].bearer = RcToken(Cur')]_vars
    /\ []((pc \in {"chats", "posts"} /\ ~Truthy(RcToken(Cur))) =>
             \A resp \in Responses :
                /\ Resumed(resp).sent = Answered(Cur, resp).sent
                /\ Resumed(resp).outcome.how \in {"error", "complete"}
                /\ Resumed(resp).pc = "idle")

\* A scan that lost its token while a request was out has ended with "Not
\* authenticated." and sent no request after that one.
C22_Witness ==
    /\ outcome.how = "error" /\ outcome.err = NotAuthenticated.kind
    /\ sent # <<>> /\ ResponseOk(sent[Len(sent)].response)
    /\ ~Truthy(RcToken(Cur))

\* The user ids the form asks for, trimmed: the elements of the
\* comma-separated list in part_001, the whole text in part_000.
RequestedIds ==
    IF variant = "ReactMulti" THEN [i \in 1..Len(userId) |-> <<Trim(userId[i])>>]
    ELSE <<TrimText(userId)>>

\* The form asks for a user id that is empty once trimmed, or lacks a date.
FormInvalid ==
    \/ \E i \in 1..Len(RequestedIds) : TextEmpty(RequestedIds[i])
    \/ startDate = NoDate
    \/ endDate = NoDate

\* C23: a findChats on a form with a user id that is empty after trimming, or
\* with a date missing, fails validation: it sends no request and shows no
\* result.
C23_InvalidFormRejected ==
    (FormInvalid /\ outcome.how # "none") =>
       (outcome.how = "invalid" /\ sent = <<>> /\ results = <<>>)

\* C24: a findChats on a form whose start date is after its end date does not
\* get past validation: no scan runs and no request is sent; whenever a
\* request of a scan has been sent, the start date is not after the end date.
C24_StartNotAfterEnd ==
    /\ startDate > endDate => (outcome.how # "running" /\ sent = <<>>)
    /\ sent # <<>> => startDate <= endDate

\* The client holds a token: in the session store or in memory.
TokenPresent(s) == s.sessionStorage[TOKEN_KEY] # Null \/ s.accessToken # Null

\* A step in which the token endpoint answers the exchange with a 2xx status.
ExchangeSucceeds == authPc = "token" /\ authPc' = "idle" /\ exchanged' = "ok"

\* A step in which the callback opens in a tab with a session store of its own.
OpensOtherTab == loads' # loads /\ sessionStorage' = EmptyStorage

\* C25: the session changes only along the transitions of the auth manager.
\* A token appears only in a step in which a token exchange succeeds, and a
\* token that is present goes away only by a logout (the click, or a 401 to a
\* request of the scan); so a token is present only if an exchange succeeded
\* since the last logout.  A verifier appears only by a login that was
\* offered to a client not logged in.
C25_AuthTransitions ==
    /\ [][(TokenPresent(Cur)' /\ ~TokenPresent(Cur)) => ExchangeSucceeds]_vars
    /\ [][(TokenPresent(Cur) /\ ~TokenPresent(Cur)') =>
             (LogoutStep \/ OpensOtherTab)]_vars
    /\ [][(sessionStorage'[VERIFIER_KEY] # Null
           /\ sessionStorage'[VERIFIER_KEY] # sessionStorage[VERIFIER_KEY]) =>
             (HandleLogin /\ ~ShowsApp(Cur))]_vars

\* A client is logged in by a successful exchange, with its token stored.
C25_Witness ==
    /\ exchanged = "ok" /\ ShowsApp(Cur)
    /\ sessionStorage[TOKEN_KEY] \in Tokens /\ accessToken = sessionStorage[TOKEN_KEY]
    /\ outcome.how = "complete"

\* The sequence a can be had from b by leaving elements out.
RECURSIVE IsSubsequence(_, _)
IsSubsequence(a, b) ==
    IF a = <<>> THEN TRUE
    ELSE IF b = <<>> THEN FALSE
    ELSE IF Head(a) = Head(b) THEN IsSubsequence(Tail(a), Tail(b))
    ELSE IsSubsequence(a, Tail(b))

\* C26: while a scan goes through the chats, and when it has completed, the
\* result set shown holds no chat twice and lists its chats in the order of
\* the chat list.
C26_ResultSetDeduplicated ==
    (FetchAllUserChatsReturned /\ ShowsApp(Cur)) =>
       /\ \A i, j \in 1..Len(results) : results[i] = results[j] => i = j
       /\ IsSubsequence(results, ReturnedChats)

\* The users a scan is asked for: the requested ids that are not empty.
RequestedUsers == SelectSeq(RequestedIds, LAMBDA u : ~TextEmpty(u))

\* The k-th per-chat scan was of the chat c for the user u (blanks around the
\* id apart).
CheckOf(k, c, u) == checks[k].chat = c /\ TrimText(checks[k].user) = u

\* C27: in a findChats that has completed, no (chat, user) pair was scanned
\* twice, and for every chat of the fetched list every requested user was
\* scanned unless a user before it in the request qualified the chat.
C27_EachPairOnce ==
    outcome.how = "complete" =>
       /\ \A k1, k2 \in 1..Len(checks) :
             (checks[k1].chat = checks[k2].chat /\ checks[k1].user = checks[k2].user) =>
                k1 = k2
       /\ \A c \in Range(outcome.allChats) :
             \A i \in 1..Len(RequestedUsers) :
                \/ \E k \in 1..Len(checks) : CheckOf(k, c, RequestedUsers[i])
                \/ \E j \in 1..(i - 1) :
                      \E k \in 1..Len(checks) :
                         CheckOf(k, c, RequestedUsers[j]) /\ checks[k].result

\* The i-th request of the scan has been answered.
IsAnswered(reqs, i) == reqs[i].response # NoResponse

\* C28: the requests of a scan are strictly sequential.  At most one request
\* is outstanding, the one sent last, and only while the scan is suspended on
\* it; and a request is sent only when every request before it, of this
\* findChats or the one before, has been answered.
C28_OneRequestOutstanding ==
    /\ [](/\ \A i \in 1..(Len(sent) - 1) : IsAnswered(sent, i)
          /\ (sent # <<>> /\ ~IsAnswered(sent, Len(sent))) =>
                (pc \in {"chats", "posts"} /\ request = sent[Len(sent)])
          /\ pc = "idle" => request = Null)
    /\ [][SendsRequest =>
             (\/ sent = <<>>
              \/ IsAnswered(sent, Len(sent))
              \/ Len(sent') = Len(sent) + 1 /\ IsAnswered(sent', Len(sent)))]_vars

\* A scan is suspended on its third request, the two before it answered.
C28_Witness ==
    /\ Len(sent) = 3 /\ pc = "posts" /\ request = sent[3]
    /\ IsAnswered(sent, 1) /\ IsAnswered(sent, 2) /\ ~IsAnswered(sent, 3)

\* The calendar day, in a zone whose local time is UTC + zone, of the instant t.
LocalDay(t, zone) == (t + zone) \div DayTicks

\* The instants of the days around the window.
Instants == ParseDate(0)..ParseDate(4)

\* C29: in every zone, the end of the window a scan compares with takes in
\* every instant of the end date's local day and none of the day after it.
C29_EndDayInclusive ==
    (outcome.how = "running" /\ pc # "idle") =>
       \A t \in Instants :
          /\ LocalDay(t, tz) = endDate => t <= postEndDate
          /\ LocalDay(t, tz) = endDate + 1 => ~(t <= postEndDate)


\* The normalized end date: the end of the window as findChats computes it.
NormalizedEnd == SetHoursEndOfDay(ParseDate(endDate), tz)

\* A post by the user inside the window startDate .. normalized end date.
CountsAsMatch(post, user) ==
    /\ <<post.creatorId>> = user
    /\ WindowStart <= post.creationTime /\ post.creationTime <= NormalizedEnd

\* The posts of the chat of the k-th per-chat scan on the pages ahead of the
\* first page whose request failed, in the order the service returns them.
PostsAhead(k) ==
    LET reqs == RequestsOfCheck(k)
        pages == postPages[checks[k].chat]
        failed == {i \in 1..Len(reqs) : ~Succeeded(reqs[i])}
        ahead == IF failed = {} THEN Len(pages)
                 ELSE (CHOOSE i \in failed : \A j \in failed : i <= j) - 1
    IN  Concat(SubSeq(pages, 1, ahead))

\* C30: a per-chat scan reports a match exactly when, among the posts ahead of
\* the first failed page and read in order, a post by the user inside the
\* window comes before every post older than startDate; so a post by the user
\* older than startDate or newer than the normalized end date is no match.
C30_MatchIffQualifyingFirst ==
    \A k \in 1..Len(checks) :
       checks[k].result <=>
          \E j \in 1..Len(PostsAhead(k)) :
             /\ CountsAsMatch(PostsAhead(k)[j], checks[k].user)
             /\ \A i \in 1..(j - 1) : ~Old(PostsAhead(k)[i])


\* A step in which the per-chat scan that is running gets the page it asked
\* for, the body being that of a 2xx response.
PostsPageArrives ==
    /\ pc = "posts"
    /\ Len(sent') >= Len(sent)
    /\ Succeeded(sent'[Len(sent)])

\* The page stops the scan neither at a post older than startDate nor at a match.
TriggersNeither(records, user) ==
    \A j \in 1..Len(records) : ~Old(records[j]) /\ ~CountsAsMatch(records[j], user)

\* C31: a page of the per-chat scan that triggers neither stop and carries a
\* cursor, a page without records included, is followed by the request of the
\* next page with that cursor (the token still being there); and a scan ends
\* without a match for lack of pages only at a response without a cursor.
C31_CursorFollowed ==
    /\ [][(/\ PostsPageArrives
           /\ TriggersNeither(ServerData(Cur, request).records, request.user)
           /\ Truthy(ServerData(Cur, request).nextPageToken)
           /\ Truthy(RcToken(Cur))) =>
             /\ Len(sent') = Len(sent) + 1
             /\ pc' = "posts"
             /\ request'.kind = "posts" /\ request'.chat = request.chat
             /\ request'.user = request.user
             /\ request'.pageToken = ServerData(Cur, request).nextPageToken]_vars
    /\ [](\A k \in 1..Len(checks) :
            checks[k].why \in {"exhausted", "empty"} =>
               LET reqs == RequestsOfCheck(k)
               IN  ~Truthy(ServerData(Cur, reqs[Len(reqs)]).nextPageToken))


\* The page-fetch entries passed to logMessage during the current scan.
PageEntries == SelectSeq(emitted, LAMBDA e : e.message = "Fetching chat page")

\* Every chat-list request issued has its entry: the i-th request follows the
\* i-th page-fetch entry, an info entry that names page i.
EntryBeforeRequest ==
    /\ Len(ChatRequests) <= Len(PageEntries)
    /\ \A i \in 1..Len(PageEntries) :
          PageEntries[i].n = i /\ PageEntries[i].type = "info"
    /\ [][Len(ChatRequests') > Len(ChatRequests) =>
             Len(PageEntries') = Len(ChatRequests')]_vars

\* C32 as the specification has it: every chat-list request is preceded by
\* the info entry of its page, and there are as many page-fetch entries as
\* chat-list requests issued.
C32_EntryPerRequest ==
    /\ EntryBeforeRequest
    /\ [](Len(PageEntries) = Len(ChatRequests))

\* C32, amended: every chat-list request is preceded by the info entry of its
\* page, also when the request stalls or fails; there are as many page-fetch
\* entries as requests issued, or one more when the fetch of the last page
\* was refused for lack of a token after its entry was logged.
C32_EntryPerRequestOrRefusal ==
    /\ EntryBeforeRequest
    /\ [](\/ Len(PageEntries) = Len(ChatRequests)
          \/ /\ Len(PageEntries) = Len(ChatRequests) + 1
             /\ outcome.how = "error" /\ outcome.err = NotAuthenticated.kind)

\* Two pages were asked for; the request of the second failed.
C32_Witness ==
    /\ Len(ChatRequests) = 2 /\ Len(PageEntries) = 2
    /\ ChatRequests[2].response.status = 500
    /\ outcome.how = "error"


\* The entries logMessage took during the current scan at the start of a
\* check, those it took for a match, and the checks that reported a match.
ScanEntries ==
    SelectSeq(emitted, LAMBDA e : e.message \in {"Scanning chat", "Scanning for user"})
SuccessEntries == SelectSeq(emitted, LAMBDA e : e.message = "User activity found")
Matches == SelectSeq(checks, LAMBDA c : c.result)

\* C33: every request for a page of posts belongs to a check whose info entry
\* was emitted before; the success entries are those of the checks that
\* reported a match, one each and in their order; and every chat of the
\* result set has a success entry.
C33_EntriesOfChecks ==
    /\ \A i \in 1..Len(sent) :
          sent[i].kind = "posts" =>
             /\ sent[i].check <= Len(ScanEntries)
             /\ ScanEntries[sent[i].check].chat = sent[i].chat
             /\ ScanEntries[sent[i].check].type = "info"
    /\ Len(SuccessEntries) = Len(Matches)
    /\ \A i \in 1..Len(SuccessEntries) :
          /\ SuccessEntries[i].chat = Matches[i].chat
          /\ SuccessEntries[i].type = "success"
    /\ \A i \in 1..Len(results) :
          \E j \in 1..Len(SuccessEntries) : SuccessEntries[j].chat = results[i]

\* Two checks have returned, one with a match and one without, and the chat
\* of the match is shown.
C33_Witness ==
    /\ \E k \in 1..Len(checks) : ~checks[k].result
    /\ Len(Matches) = 1
    /\ results = <<Matches[1].chat>>


\* The entries of the log shown that came through logMessage (handleLogout of
\* part_001 sets its line with setLogs, not through logMessage).
ShownEntries == SelectSeq(logs, LAMBDA e : e.type # "none")

\* C34: the log shown holds the entries logMessage took, each at most as
\* often as it was emitted and in the order of emission, whatever the
\* interleaving of logMessage calls, timer ticks and forced flushes.
C34_OnceInOrder == IsSubsequence(ShownEntries, emitted)


\* C35: what is stored under the token key is a token the token endpoint
\* issued, or nothing; the logged-in view is shown only with such a token; and
\* every request sent carries such a token, never a placeholder.
C35_OnlyIssuedTokens ==
    /\ sessionStorage[TOKEN_KEY] \in Tokens \cup {Null}
    /\ ShowsApp(Cur) => RcToken(Cur) \in Tokens
    /\ \A i \in 1..Len(sent) : sent[i].bearer \in Tokens


\* No login step is under way: the page is loaded and no token request is
\* awaited.
Quiescent == location = "app" /\ authPc = "idle"

\* C36: in every quiescent state the in-memory token is present exactly when
\* a token is stored under the token key.
C36_MemoryAgreesWithStore ==
    Quiescent => (Truthy(accessToken) <=> Truthy(sessionStorage[TOKEN_KEY]))


----------------------------------------------------------------------------
\* Termination.  The service answers every request and React renders every
\* update it scheduled; the chat list and the pages of posts are finite.

\* A chat list of two pages, a chat of MaxPostPages pages of posts by
\* someone else, and a form the validation rejects.
LiveWorlds ==
    { w \in PagedWorlds : w.chatPages = << <<"c1">>, <<"c2">> >> } \cup
    { w \in DeepWorlds :
         /\ Len(w.postPages["c1"]) = MaxPostPages
         /\ \A i \in 1..MaxPostPages : w.postPages["c1"][i] = <<Post("u2", Within)>> }
LiveScenarios ==
    { Scenario(w, Form(<<"u1">>, 1, 1, 0)) : w \in LiveWorlds }
    \cup { Scenario(SmallWorld, Form(<<"">>, 1, 1, 0)) }

LiveInit ==
    /\ Init
    /\ \E sc \in LiveScenarios :
          /\ chatPages = sc.chatPages /\ postPages = sc.postPages
          /\ userId = sc.userId /\ startDate = sc.startDate /\ endDate = sc.endDate
          /\ tz = sc.tz

LiveSpec ==
    /\ LiveInit /\ [][Next]_vars
    /\ WF_vars(ChatsResponse) /\ WF_vars(PostsResponse) /\ WF_vars(Render)

\* C37: a findChats that runs ends (by validation, completion, an error, or
\* the page being left), and the loading flag is true exactly while a
\* findChats is between its start and its end.
C37_ScanEnds ==
    /\ [](loading <=> outcome.how = "running")
    /\ (outcome.how = "running") ~> (outcome.how # "running")

\* A scan over two pages of chats and the posts of two chats has completed.
C37_Witness ==
    /\ outcome.how = "complete" /\ ~loading
    /\ Len(ChatRequests) = 2
    /\ Len(checks) = 2


\* A scan is suspended on a request and the session has been logged out.
LoggedOutInFlight ==
    outcome.how = "running" /\ pc # "idle" /\ ~Truthy(RcToken(Cur))

\* C38: once a logout has happened while a scan is suspended on a request,
\* the scan sends nothing more: the step that resumes it leaves the requests
\* sent as they are and ends the scan, by "Not authenticated." when it went on
\* to a further request.
C38_NoRequestAfterLogout ==
    [][LoggedOutInFlight =>
          /\ Len(sent') <= Len(sent)
          /\ (pc' # pc \/ request' # request) => 
                /\ outcome'.how # "running"
                /\ (outcome'.how = "error" /\ AllSucceeded(sent')) =>
                      outcome'.err = NotAuthenticated.kind]_vars

\* A scan sent a request, was logged out, and ended at its next call of rcFetch.
C38_Witness ==
    /\ outcome.how = "error" /\ outcome.err = NotAuthenticated.kind
    /\ sent # <<>> /\ AllSucceeded(sent)
    /\ \A i \in 1..Len(sent) : sent[i].bearer \in Tokens
    /\ LoggedOut(Cur)


\* C39: after a logout that happened while a scan was suspended on a request,
\* no step adds a chat to the result set: the response that arrives later
\* leaves the result set with the chats it had right after the logout.
C39_StaleScanAddsNothing ==
    [][LoggedOutInFlight => Range(results') \subseteq Range(results)]_vars


\* The chats on the pages of the chat list the current scan has fetched so far.
RECURSIVE RecordsOf(_)
RecordsOf(reqs) ==
    IF reqs = <<>> THEN <<>>
    ELSE (IF Succeeded(Head(reqs)) THEN ServerData(Cur, Head(reqs)).records ELSE <<>>)
         \o RecordsOf(Tail(reqs))
FetchedChats == RecordsOf(ChatRequests)

\* C40: a findChats starts from an empty result set and an empty log and asks
\* for the first page of the chat list without a cursor, so every chat of the
\* result set is of the chat list the current scan fetched and every entry of
\* the log is of the current scan; and no findChats starts while one runs:
\* the history of a running scan is only extended.
C40_FreshScan ==
    /\ [](/\ sent # <<>> => (sent[1].kind = "chats" /\ sent[1].pageToken = Null)
          /\ Range(results) \subseteq Range(FetchedChats)
          /\ Range(ShownEntries) \subseteq Range(emitted))
    /\ [][(outcome.how = "running" /\ location' = "app") =>
             (IsPrefix(emitted, emitted') /\ Len(sent') >= Len(sent))]_vars

\* A second findChats has completed and shows what it found.
C40_Witness ==
    /\ clicks = 2 /\ ShowsApp(Cur)
    /\ outcome.how = "complete" /\ results # <<>>

====
